---- MODULE Spec2Model ----
(***************************************************************************)
(* Model of librespot's connect play-state store (connect/src/state.rs):   *)
(* ConnectState with its mutators, the track advancement engine            *)
(* (next_playing_track / next_queued_track / next_track) and the state     *)
(* publisher (update_state).                                               *)
(*                                                                         *)
(* Option<T> and MessageField<T> are modelled as sequences of length <= 1: *)
(* None is <<>> and Some(x) is <<x>>.  A Vec<T> is a sequence.             *)
(***************************************************************************)
EXTENDS Integers, Sequences, FiniteSets, TLC

\* ---------------------------------------------------------------- bounds
\* longest next-track list / play-next queue of a starting state
MaxNext == 3
MaxQueue == 2
\* wall clock values SystemTime::now() ranges over: 0..MaxClock
MaxClock == 1
\* context index values passed to set_playing_track_index: 0..MaxIndex
MaxIndex == 1
\* longest next-track list the caller installs in one go under Spec
MaxLoad == 1

\* ------------------------------------------------------ program constants
\* `if player.prev_tracks.len() >= 10`
HistoryMax == 10
\* `initial_volume: u32::from(u16::MAX) / 2`
InitialVolume == 32767

\* ----------------------------------------------------------------- values
None == <<>>
Some(x) == <<x>>

\* a ProvidedTrack; the model keeps uri, uid and provider
ProvidedTrack(id, provider) == [uri |-> id, uid |-> id, provider |-> provider]

\* the variants of SpircPlayStatus that set_status distinguishes
SpircPlayStatus == {"Stopped", "LoadingPause", "Paused", "LoadingPlay", "Playing"}

\* PutStateReason values passed to update_state
PutStateReason == {"NEW_DEVICE", "PLAYER_STATE_CHANGED", "BECAME_INACTIVE"}

\* results of next_playing_track / update_state as seen by the caller
NoResult == [kind |-> "None", track |-> None, err |-> ""]
OkTrack(t) == [kind |-> "Ok", track |-> t, err |-> ""]
OkUnit == [kind |-> "Ok", track |-> None, err |-> ""]
Err(e) == [kind |-> "Err", track |-> None, err |-> e]
Panic(msg) == [kind |-> "Panic", track |-> None, err |-> msg]

\* no envelope has been decoded yet
NotDecoded == [kind |-> "NotDecoded"]

VARIABLES
    active,                \* ConnectState.active
    active_since,          \* ConnectState.active_since : Option<SystemTime>
    has_been_playing_for,  \* ConnectState.has_been_playing_for : Option<Instant>
    device,                \* ConnectState.device : DeviceInfo
    player,                \* ConnectState.player : PlayerState
    queue,                 \* ConnectState.queue : Queue
    last_command,          \* ConnectState.last_command : Option<Request>
    now,                   \* the wall clock read by SystemTime::now()
    aborted,               \* a panic has unwound the task that owns the store
    ret,                   \* what the last next_playing_track call returned
    pending,               \* the PutStateRequest in flight: Option<PutStateRequest>
    submissions,           \* put_connect_state_request calls of the last update_state
    publish_ret,           \* what the last update_state call returned
    last_call,             \* the operation invoked last, with its argument
    base,                  \* the track lists as the caller (or reset) last left them
    advanced,              \* tracks next_playing_track has installed since `base`
    message,               \* the envelope the transport has delivered: Option<Value>
    decoded,               \* the outcome of decoding `message` into a Request
    shown                  \* the decoded command as its Display impl formats it

vars == <<active, active_since, has_been_playing_for, device, player, queue,
          last_command, now, aborted, ret, pending, submissions, publish_ret,
          last_call, base, advanced, message, decoded, shown>>

Call(op, arg) == [op |-> op, arg |-> arg]

\* the tracks of a store: the current one, the two lists and the play-next queue
Tracks(p, q) ==
    [ track |-> p.track,
      prev_tracks |-> p.prev_tracks,
      next_tracks |-> p.next_tracks,
      queue |-> q ]

\* ------------------------------------------------------------ construction
\* PlayerState as `reset` builds it: every other field is Default::default()
ResetPlayer ==
    [ track |-> None,
      prev_tracks |-> <<>>,
      next_tracks |-> <<>>,
      index |-> None,
      options |-> Some([ repeating_context |-> FALSE,
                         repeating_track |-> FALSE,
                         shuffling_context |-> FALSE ]),
      is_playing |-> FALSE,
      is_paused |-> FALSE,
      is_buffering |-> FALSE,
      is_system_initiated |-> TRUE,
      playback_speed |-> 1 ]

\* DeviceInfo as `new` builds it from ConnectStateConfig::default()
NewDevice ==
    [ can_play |-> TRUE,
      volume |-> InitialVolume,
      name |-> "librespot",
      spirc_version |-> "3.2.6" ]

\* Queue::default()
NewQueue == [tracks |-> <<>>, is_playing_queue |-> FALSE]

\* ConnectState::new: the struct literal, then state.reset()
Init ==
    /\ active = FALSE
    /\ active_since = None
    /\ has_been_playing_for = None
    /\ device = NewDevice
    /\ player = ResetPlayer
    /\ queue = NewQueue
    /\ last_command = None
    /\ now = 0
    /\ aborted = FALSE
    /\ ret = NoResult
    /\ pending = None
    /\ submissions = 0
    /\ publish_ret = NoResult
    /\ last_call = Call("new", 0)
    /\ base = Tracks(ResetPlayer, NewQueue)
    /\ advanced = 0
    /\ message = None
    /\ decoded = NotDecoded
    /\ shown = None

\* ---------------------------------------------------------------- mutators
\* fn reset(&mut self)
reset(a, since, p) ==
    [active |-> FALSE, active_since |-> None, player |-> ResetPlayer]

Reset ==
    /\ ~aborted
    /\ LET r == reset(active, active_since, player)
       IN /\ active' = r.active
          /\ active_since' = r.active_since
          /\ player' = r.player
          /\ base' = Tracks(r.player, queue)
    /\ advanced' = 0
    /\ last_call' = Call("reset", 0)
    /\ UNCHANGED <<message, decoded, shown,
                   has_been_playing_for, device, queue, last_command, now,
                   aborted, ret, pending, submissions, publish_ret>>

\* set_active whose deactivation leaves the timestamp behind
set_active_stale_since(a, since, value, t) ==
    IF value
    THEN IF a
         THEN [active |-> a, active_since |-> since]
         ELSE [active |-> TRUE, active_since |-> Some(t)]
    ELSE [active |-> FALSE, active_since |-> since]

\* set_active without the early return: every activation takes a new timestamp
set_active_restamp(a, since, value, t) ==
    IF value
    THEN [active |-> TRUE, active_since |-> Some(t)]
    ELSE [active |-> FALSE, active_since |-> None]

\* pub fn set_active(&mut self, value: bool); t is SystemTime::now()
set_active(a, since, value, t) ==
    IF value
    THEN IF a
         THEN [active |-> a, active_since |-> since]
         ELSE [active |-> TRUE, active_since |-> Some(t)]
    ELSE [active |-> FALSE, active_since |-> None]

SetActive(value) ==
    /\ ~aborted
    /\ LET r == set_active(active, active_since, value, now)
       IN /\ active' = r.active
          /\ active_since' = r.active_since
    /\ last_call' = Call("set_active", value)
    /\ UNCHANGED <<message, decoded, shown,
                   has_been_playing_for, device, player, queue, last_command, now,
                   aborted, ret, pending, submissions, publish_ret, base, advanced>>

\* pub fn set_repeat_context / set_repeat_track / set_shuffle
set_option(p, field, value) ==
    IF p.options /= None
    THEN [p EXCEPT !.options = Some([p.options[1] EXCEPT ![field] = value])]
    ELSE p

set_repeat_context(p, repeat) == set_option(p, "repeating_context", repeat)

set_repeat_track(p, repeat) == set_option(p, "repeating_track", repeat)

set_shuffle(p, shuffle) == set_option(p, "shuffling_context", shuffle)

PlayerFrame ==
    UNCHANGED <<message, decoded, shown,
                active, active_since, has_been_playing_for, device, queue,
                last_command, now, aborted, ret, pending, submissions,
                publish_ret, base, advanced>>

SetRepeatContext(repeat) ==
    /\ ~aborted
    /\ player' = set_repeat_context(player, repeat)
    /\ last_call' = Call("set_repeat_context", repeat)
    /\ PlayerFrame

SetRepeatTrack(repeat) ==
    /\ ~aborted
    /\ player' = set_repeat_track(player, repeat)
    /\ last_call' = Call("set_repeat_track", repeat)
    /\ PlayerFrame

SetShuffle(shuffle) ==
    /\ ~aborted
    /\ player' = set_shuffle(player, shuffle)
    /\ last_call' = Call("set_shuffle", shuffle)
    /\ PlayerFrame

\* pub fn set_playing_track_index(&mut self, new_index: u32)
set_playing_track_index(p, new_index) ==
    IF p.index /= None
    THEN [p EXCEPT !.index = Some([p.index[1] EXCEPT !.track = new_index])]
    ELSE p

SetPlayingTrackIndex(new_index) ==
    /\ ~aborted
    /\ player' = set_playing_track_index(player, new_index)
    /\ last_call' = Call("set_playing_track_index", new_index)
    /\ PlayerFrame

\* set_status whose is_paused pattern leaves out Stopped
set_status_stopped_unpaused(p, status) ==
    [p EXCEPT
        !.is_paused = status \in {"LoadingPause", "Paused"},
        !.is_buffering = status \in {"LoadingPause", "LoadingPlay"},
        !.is_playing = status \in {"LoadingPlay", "Playing"}]

\* set_status whose is_paused pattern also matches LoadingPlay
set_status_loading_play_paused(p, status) ==
    [p EXCEPT
        !.is_paused = status \in {"LoadingPause", "LoadingPlay", "Paused", "Stopped"},
        !.is_buffering = status \in {"LoadingPause", "LoadingPlay"},
        !.is_playing = status \in {"LoadingPlay", "Playing"}]

\* pub(crate) fn set_status(&mut self, status: &SpircPlayStatus)
set_status(p, status) ==
    [p EXCEPT
        !.is_paused = status \in {"LoadingPause", "Paused", "Stopped"},
        !.is_buffering = status \in {"LoadingPause", "LoadingPlay"},
        !.is_playing = status \in {"LoadingPlay", "Playing"}]

SetStatus(status) ==
    /\ ~aborted
    /\ player' = set_status(player, status)
    /\ last_call' = Call("set_status", status)
    /\ PlayerFrame

\* ------------------------------------------------- track advancement engine
\* each operator returns the store fields it may write, the value handed back
\* to the caller, and whether the call panicked

\* next_track with the eviction left out: the history grows without bound
next_track_no_eviction(p, q) ==
    IF p.track = None
    THEN [player |-> p, queue |-> q, ret |-> Err("NoCurrentTrack"), aborted |-> FALSE]
    ELSE LET pushed == [p EXCEPT !.track = None,
                                 !.prev_tracks = Append(p.prev_tracks, p.track[1])]
         IN IF pushed.next_tracks = <<>>
            THEN [player |-> pushed, queue |-> q,
                  ret |-> Panic("removal index (is 0) should be < len (is 0)"),
                  aborted |-> TRUE]
            ELSE LET installed == [pushed EXCEPT
                                     !.next_tracks = Tail(pushed.next_tracks),
                                     !.track = Some(Head(pushed.next_tracks))]
                 IN [player |-> installed, queue |-> q,
                     ret |-> OkTrack(installed.track), aborted |-> FALSE]

\* the history push of next_track, shared by the variants below
PushHistory(p) ==
    [p EXCEPT !.track = None,
              !.prev_tracks =
                  Append(IF Len(p.prev_tracks) >= HistoryMax
                         THEN Tail(p.prev_tracks)
                         ELSE p.prev_tracks, p.track[1])]

\* next_track taking the tail of the next-track list (Vec::pop) instead of its head
next_track_pop(p, q) ==
    IF p.track = None
    THEN [player |-> p, queue |-> q, ret |-> Err("NoCurrentTrack"), aborted |-> FALSE]
    ELSE LET pushed == PushHistory(p)
             n == Len(pushed.next_tracks)
         IN IF n = 0
            THEN [player |-> pushed, queue |-> q,
                  ret |-> Panic("removal index (is 0) should be < len (is 0)"),
                  aborted |-> TRUE]
            ELSE LET installed == [pushed EXCEPT
                                     !.next_tracks = SubSeq(pushed.next_tracks, 1, n - 1),
                                     !.track = Some(pushed.next_tracks[n])]
                 IN [player |-> installed, queue |-> q,
                     ret |-> OkTrack(installed.track), aborted |-> FALSE]

\* next_track reporting the wrong error variant for an absent current track
next_track_wrong_error(p, q) ==
    IF p.track = None
    THEN [player |-> p, queue |-> q, ret |-> Err("NoNextTrack"), aborted |-> FALSE]
    ELSE LET pushed == PushHistory(p)
         IN IF pushed.next_tracks = <<>>
            THEN [player |-> pushed, queue |-> q,
                  ret |-> Panic("removal index (is 0) should be < len (is 0)"),
                  aborted |-> TRUE]
            ELSE LET installed == [pushed EXCEPT
                                     !.next_tracks = Tail(pushed.next_tracks),
                                     !.track = Some(Head(pushed.next_tracks))]
                 IN [player |-> installed, queue |-> q,
                     ret |-> OkTrack(installed.track), aborted |-> FALSE]

\* next_track installing the head of the next-track list without removing it
next_track_keep_head(p, q) ==
    IF p.track = None
    THEN [player |-> p, queue |-> q, ret |-> Err("NoCurrentTrack"), aborted |-> FALSE]
    ELSE LET pushed == PushHistory(p)
         IN IF pushed.next_tracks = <<>>
            THEN [player |-> pushed, queue |-> q,
                  ret |-> Panic("removal index (is 0) should be < len (is 0)"),
                  aborted |-> TRUE]
            ELSE LET installed == [pushed EXCEPT
                                     !.track = Some(Head(pushed.next_tracks))]
                 IN [player |-> installed, queue |-> q,
                     ret |-> OkTrack(installed.track), aborted |-> FALSE]

\* fn next_track(&mut self)
next_track(p, q) ==
    IF p.track = None
    THEN \* .take() of an absent field leaves it absent; `?` returns the error
         [player |-> p, queue |-> q, ret |-> Err("NoCurrentTrack"), aborted |-> FALSE]
    ELSE LET old_track == p.track[1]
             taken == [p EXCEPT !.track = None]
             evicted == IF Len(taken.prev_tracks) >= HistoryMax
                        THEN Tail(taken.prev_tracks)
                        ELSE taken.prev_tracks
             pushed == [taken EXCEPT !.prev_tracks = Append(evicted, old_track)]
         IN IF pushed.next_tracks = <<>>
            THEN \* Vec::remove(0) on an empty Vec panics, after the writes above
                 [player |-> pushed, queue |-> q,
                  ret |-> Panic("removal index (is 0) should be < len (is 0)"),
                  aborted |-> TRUE]
            ELSE LET new_track == Head(pushed.next_tracks)
                     installed == [pushed EXCEPT
                                     !.next_tracks = Tail(pushed.next_tracks),
                                     !.track = Some(new_track)]
                 IN [player |-> installed, queue |-> q,
                     ret |-> OkTrack(installed.track), aborted |-> FALSE]

\* next_queued_track taking the head of the play-next queue instead of its tail
next_queued_track_fifo(p, q) ==
    IF q.tracks = <<>>
    THEN next_track(p, q)
    ELSE LET next_queued == Head(q.tracks)
             installed == [p EXCEPT !.track = Some([ uri |-> next_queued.uri,
                                                     uid |-> next_queued.uid,
                                                     provider |-> "queue" ])]
         IN [player |-> installed, queue |-> [q EXCEPT !.tracks = Tail(q.tracks)],
             ret |-> OkTrack(installed.track), aborted |-> FALSE]

\* next_queued_track pushing the replaced current track onto the history, as
\* next_track does
next_queued_track_push_history(p, q) ==
    IF q.tracks = <<>>
    THEN next_track(p, q)
    ELSE LET next_queued == q.tracks[Len(q.tracks)]
             pushed == IF p.track /= None THEN PushHistory(p) ELSE p
             installed == [pushed EXCEPT !.track = Some([ uri |-> next_queued.uri,
                                                          uid |-> next_queued.uid,
                                                          provider |-> "queue" ])]
         IN [player |-> installed,
             queue |-> [q EXCEPT !.tracks = SubSeq(q.tracks, 1, Len(q.tracks) - 1)],
             ret |-> OkTrack(installed.track), aborted |-> FALSE]

\* fn next_queued_track(&mut self)
next_queued_track(p, q) ==
    IF q.tracks = <<>>
    THEN next_track(p, q)
    ELSE LET next_queued == q.tracks[Len(q.tracks)]
             popped == [q EXCEPT !.tracks = SubSeq(q.tracks, 1, Len(q.tracks) - 1)]
             next_provided_track == [ uri |-> next_queued.uri,
                                      uid |-> next_queued.uid,
                                      provider |-> "queue" ]
             installed == [p EXCEPT !.track = Some(next_provided_track)]
         IN [player |-> installed, queue |-> popped,
             ret |-> OkTrack(installed.track), aborted |-> FALSE]

\* pub fn next_playing_track(&mut self)
next_playing_track(p, q) ==
    IF q.is_playing_queue
    THEN next_queued_track(p, q)
    ELSE next_track(p, q)

NextPlayingTrack ==
    /\ ~aborted
    /\ LET r == next_playing_track(player, queue)
       IN /\ player' = r.player
          /\ queue' = r.queue
          /\ ret' = r.ret
          /\ aborted' = r.aborted
          /\ advanced' = IF r.ret.kind = "Ok" THEN advanced + 1 ELSE advanced
    /\ last_call' = Call("next_playing_track", 0)
    /\ UNCHANGED <<message, decoded, shown,
                   active, active_since, has_been_playing_for, device,
                   last_command, now, pending, submissions, publish_ret, base>>

\* what a call returning Option<ProvidedTrack> hands back when it is None
ReturnedNone == [kind |-> "OptionNone", track |-> None, err |-> ""]

\* fn prev_track(&mut self) -> Option<ProvidedTrack>: the body is `None`
prev_track(p) == [player |-> p, ret |-> ReturnedNone]

PrevTrack ==
    /\ ~aborted
    /\ LET r == prev_track(player)
       IN /\ player' = r.player
          /\ ret' = r.ret
    /\ last_call' = Call("prev_track", 0)
    /\ UNCHANGED <<message, decoded, shown,
                   active, active_since, has_been_playing_for, device, queue,
                   last_command, now, aborted, pending, submissions, publish_ret,
                   base, advanced>>

\* ---------------------------------------------------------- state publisher
\* update_state that leaves is_active of the request at its default
update_state_default_active(self, reason, t) ==
    IF reason = "BECAME_INACTIVE"
    THEN [panicked |-> TRUE, request |-> None]
    ELSE [panicked |-> FALSE,
          request |-> Some(
            [ client_side_timestamp |-> t,
              member_type |-> "CONNECT_STATE",
              put_state_reason |-> reason,
              is_active |-> FALSE,
              device |-> [device_info |-> self.device, player_state |-> self.player],
              has_been_playing_for_ms |->
                  IF self.has_been_playing_for /= None
                  THEN t - self.has_been_playing_for[1] ELSE 0,
              started_playing_at |->
                  IF self.active_since /= None THEN self.active_since[1] ELSE 0,
              last_command_message_id |->
                  IF self.last_command /= None THEN self.last_command[1].message_id ELSE 0,
              last_command_sent_by_device_id |->
                  IF self.last_command /= None
                  THEN self.last_command[1].sent_by_device_id ELSE "" ])]

\* pub async fn update_state(&self, session, reason), up to the `.await`: the
\* PutStateRequest handed to put_connect_state_request, built from `self.clone()`;
\* t is SystemTime::now().  todo!() panics for BECAME_INACTIVE.
update_state(self, reason, t) ==
    IF reason = "BECAME_INACTIVE"
    THEN [panicked |-> TRUE, request |-> None]
    ELSE LET state == self
             put_state ==
               [ client_side_timestamp |-> t,
                 member_type |-> "CONNECT_STATE",
                 put_state_reason |-> reason,
                 is_active |-> state.active,
                 device |-> [device_info |-> state.device, player_state |-> state.player],
                 has_been_playing_for_ms |->
                     IF state.has_been_playing_for /= None
                     THEN t - state.has_been_playing_for[1] ELSE 0,
                 started_playing_at |->
                     IF state.active_since /= None THEN state.active_since[1] ELSE 0,
                 last_command_message_id |->
                     IF state.last_command /= None
                     THEN state.last_command[1].message_id ELSE 0,
                 last_command_sent_by_device_id |->
                     IF state.last_command /= None
                     THEN state.last_command[1].sent_by_device_id ELSE "" ]
         IN [panicked |-> FALSE, request |-> Some(put_state)]

\* the store as update_state reads it through `&self`
Self ==
    [ active |-> active,
      active_since |-> active_since,
      has_been_playing_for |-> has_been_playing_for,
      device |-> device,
      player |-> player,
      queue |-> queue,
      last_command |-> last_command ]

\* the caller invokes update_state and awaits it: the request is built and
\* handed to the network collaborator, or the call panics
UpdateStateCall(reason) ==
    /\ ~aborted
    /\ pending = None
    /\ LET r == update_state(Self, reason, now)
       IN /\ pending' = r.request
          /\ aborted' = r.panicked
          /\ submissions' = IF r.panicked THEN 0 ELSE 1
          /\ publish_ret' = IF r.panicked
                            THEN Panic("not yet implemented: handle became inactive")
                            ELSE NoResult
    /\ last_call' = Call("update_state", reason)
    /\ UNCHANGED <<message, decoded, shown,
                   active, active_since, has_been_playing_for, device, player,
                   queue, last_command, now, ret, base, advanced>>

\* what update_state returns once put_connect_state_request(put_state).await
\* has resolved to `response`: the collaborator's result, as it is
update_state_return(response) == response

\* update_state that submits the request a second time when the first attempt fails
update_state_resume_retry(request, n, response) ==
    IF response.kind = "Err" /\ n < 2
    THEN [publish_ret |-> NoResult, pending |-> request, submissions |-> n + 1]
    ELSE [publish_ret |-> update_state_return(response), pending |-> None,
          submissions |-> n]

\* update_state after the `.await`: the collaborator's answer to `request`, the
\* n-th submission, is the value of the tail expression; nothing is submitted again
update_state_resume(request, n, response) ==
    [publish_ret |-> update_state_return(response), pending |-> None, submissions |-> n]

\* the errors put_connect_state_request may resolve to
PutStateErrors == {Err("unavailable"), Err("deadline_exceeded")}

\* the network collaborator answers the request in flight
PutStateResponse(response) ==
    /\ ~aborted
    /\ pending /= None
    /\ LET r == update_state_resume(pending, submissions, response)
       IN /\ pending' = r.pending
          /\ publish_ret' = r.publish_ret
          /\ submissions' = r.submissions
    /\ last_call' = Call("put_connect_state_response", response)
    /\ UNCHANGED <<message, decoded, shown,
                   active, active_since, has_been_playing_for, device, player,
                   queue, last_command, now, aborted, ret, base, advanced>>

\* ------------------------------------------------------------- environment
\* SystemTime::now() moves on between calls
Tick ==
    /\ ~aborted
    /\ now < MaxClock
    /\ now' = now + 1
    /\ last_call' = Call("tick", 0)
    /\ UNCHANGED <<message, decoded, shown,
                   active, active_since, has_been_playing_for, device, player,
                   queue, last_command, aborted, ret, pending, submissions,
                   publish_ret, base, advanced>>

\* the owner of the store writes the public fields `player.track`,
\* `player.next_tracks` and `player.index` when it loads a context
LoadContext(n) ==
    /\ ~aborted
    /\ player.track = None
    /\ player.prev_tracks = <<>>
    /\ player.next_tracks = <<>>
    /\ player' = [player EXCEPT
                    !.track = Some(ProvidedTrack(1, "context")),
                    !.next_tracks = [i \in 1..n |-> ProvidedTrack(1 + i, "context")],
                    !.index = Some([page |-> 0, track |-> 0])]
    /\ base' = Tracks(player', queue)
    /\ advanced' = 0
    /\ last_call' = Call("load_context", n)
    /\ UNCHANGED <<message, decoded, shown,
                   active, active_since, has_been_playing_for, device, queue,
                   last_command, now, aborted, ret, pending, submissions,
                   publish_ret>>

\* ------------------------------------------------------------ the store
Next ==
    \/ Reset
    \/ \E value \in BOOLEAN : SetActive(value)
    \/ \E repeat \in BOOLEAN : SetRepeatContext(repeat)
    \/ \E repeat \in BOOLEAN : SetRepeatTrack(repeat)
    \/ \E shuffle \in BOOLEAN : SetShuffle(shuffle)
    \/ \E new_index \in 0..MaxIndex : SetPlayingTrackIndex(new_index)
    \/ \E status \in SpircPlayStatus : SetStatus(status)
    \/ NextPlayingTrack
    \/ Tick
    \/ \E n \in 0..MaxLoad : LoadContext(n)

Spec == Init /\ [][Next]_vars

\* ------------------------------------------- the advancement engine alone
\* the track slots of a starting state, numbered: the current track, then the
\* next-track list, the play-next queue and the history
Slots == 1 + MaxNext + MaxQueue + HistoryMax

\* the track in slot k when uids are handed out round-robin from a pool of m:
\* a pool of Slots uids makes every instance distinct, a smaller one repeats some
SlotTrack(k, m) == ProvidedTrack(((k - 1) % m) + 1, "context")

\* a store whose public track fields the owner has filled in after `new`: a
\* current track or none, a history of at most HistoryMax entries, a next-track
\* list, a play-next queue and either value of the queue-active flag
InitAdvance ==
    /\ active = FALSE
    /\ active_since = None
    /\ has_been_playing_for = None
    /\ device = NewDevice
    /\ \E m \in 1..Slots, present \in BOOLEAN, n \in 0..MaxNext,
          k \in 0..MaxQueue, h \in 0..HistoryMax, f \in BOOLEAN :
            /\ player = [ResetPlayer EXCEPT
                            !.track = IF present THEN Some(SlotTrack(1, m)) ELSE None,
                            !.next_tracks = [i \in 1..n |-> SlotTrack(1 + i, m)],
                            !.prev_tracks =
                                [i \in 1..h |-> SlotTrack(1 + MaxNext + MaxQueue + i, m)]]
            /\ queue = [tracks |-> [i \in 1..k |-> SlotTrack(1 + MaxNext + i, m)],
                        is_playing_queue |-> f]
    /\ last_command = None
    /\ now = 0
    /\ aborted = FALSE
    /\ ret = NoResult
    /\ pending = None
    /\ submissions = 0
    /\ publish_ret = NoResult
    /\ last_call = Call("new", 0)
    /\ base = Tracks(player, queue)
    /\ advanced = 0
    /\ message = None
    /\ decoded = NotDecoded
    /\ shown = None

NextAdvance == NextPlayingTrack

SpecAdvance == InitAdvance /\ [][NextAdvance]_vars

\* the engine with the step back as well
NextPrevious ==
    \/ NextPlayingTrack
    \/ PrevTrack

SpecPrevious == InitAdvance /\ [][NextPrevious]_vars

\* ------------------------------------------------------ the publisher
\* a store after `new` whose owner has recorded the last command and the start
\* of playback (public fields), or has not
InitPublish ==
    /\ active = FALSE
    /\ active_since = None
    /\ has_been_playing_for \in {None, Some(0)}
    /\ device = NewDevice
    /\ player = ResetPlayer
    /\ queue = NewQueue
    /\ last_command \in {None, Some([message_id |-> 5, sent_by_device_id |-> "dev1"])}
    /\ now = 0
    /\ aborted = FALSE
    /\ ret = NoResult
    /\ pending = None
    /\ submissions = 0
    /\ publish_ret = NoResult
    /\ last_call = Call("new", 0)
    /\ base = Tracks(player, queue)
    /\ advanced = 0
    /\ message = None
    /\ decoded = NotDecoded
    /\ shown = None

\* the request holds clones, so the store may change while the call is in
\* flight (update_state invoked on a clone that a spawned task owns) or
\* between two calls
NextPublish ==
    \/ \E value \in BOOLEAN : SetActive(value)
    \/ \E status \in SpircPlayStatus : SetStatus(status)
    \/ Tick
    \/ \E reason \in PutStateReason : UpdateStateCall(reason)
    \/ \E response \in {OkUnit} \cup PutStateErrors : PutStateResponse(response)

SpecPublish == InitPublish /\ [][NextPublish]_vars

\* ---------------------------------------------------- the command decoder
\* (core/src/dealer/protocol/request.rs)
\*
\* A serde_json::Value is a record of uniform shape: `t` names the JSON kind
\* and exactly one of the other fields carries the content.  An object is a
\* function from its field names to values.
EmptyObj == [k \in {} |-> 0]
JNull == [t |-> "null", b |-> FALSE, n |-> 0, s |-> "", o |-> EmptyObj, a |-> <<>>]
JBool(b) == [t |-> "bool", b |-> b, n |-> 0, s |-> "", o |-> EmptyObj, a |-> <<>>]
JNum(n) == [t |-> "num", b |-> FALSE, n |-> n, s |-> "", o |-> EmptyObj, a |-> <<>>]
JStr(s) == [t |-> "str", b |-> FALSE, n |-> 0, s |-> s, o |-> EmptyObj, a |-> <<>>]
JObj(o) == [t |-> "obj", b |-> FALSE, n |-> 0, s |-> "", o |-> o, a |-> <<>>]
JArr(a) == [t |-> "arr", b |-> FALSE, n |-> 0, s |-> "", o |-> EmptyObj, a |-> a]

\* the object `o` with field `k` set to `v` / with field `k` taken out
With(o, k, v) == [x \in (DOMAIN o) \cup {k} |-> IF x = k THEN v ELSE o[x]]
Without(o, k) == [x \in (DOMAIN o) \ {k} |-> o[x]]

\* Result<T, D::Error> of a Deserialize impl
Parsed(v) == [ok |-> TRUE, v |-> v]
Failed == [ok |-> FALSE, v |-> None]

\* the Deserialize impls of the field types the structs name.  Every number
\* on the model's wire is an integer below 2^31, so a u32 turns down the
\* negative ones only and an i64 none
de_u32(v) == IF v.t = "num" /\ v.n >= 0 THEN Parsed(v.n) ELSE Failed
de_i64(v) == IF v.t = "num" THEN Parsed(v.n) ELSE Failed
de_bool(v) == IF v.t = "bool" THEN Parsed(v.b) ELSE Failed
de_String(v) == IF v.t = "str" THEN Parsed(v.s) ELSE Failed
de_VecString(v) ==
    IF v.t = "arr" /\ \A i \in DOMAIN v.a : v.a[i].t = "str"
    THEN Parsed([i \in DOMAIN v.a |-> v.a[i].s])
    ELSE Failed

\* a field of a derived struct, looked up in the map: for a field the map
\* lacks the decode goes on with serde's missing-field value, which is an
\* error for every type ...
Missing == [t |-> "missing", b |-> FALSE, n |-> 0, s |-> "", o |-> EmptyObj, a |-> <<>>]
Field(o, k) == IF k \in DOMAIN o THEN o[k] ELSE Missing

\* ... but Option<T>: a missing field and null are None
de_Option_String(v) ==
    IF v.t \in {"missing", "null"} THEN Parsed(None)
    ELSE IF de_String(v).ok THEN Parsed(Some(de_String(v).v)) ELSE Failed

de_Option_i64(v) ==
    IF v.t \in {"missing", "null"} THEN Parsed(None)
    ELSE IF de_i64(v).ok THEN Parsed(Some(de_i64(v).v)) ELSE Failed

de_Option_VecString(v) ==
    IF v.t \in {"missing", "null"} THEN Parsed(None)
    ELSE IF de_VecString(v).ok THEN Parsed(Some(de_VecString(v).v)) ELSE Failed

\* the adapters of crate::deserialize_with.  json_proto reinterprets a JSON
\* object as a protobuf message, base64_proto decodes an optional base64
\* string into one; the model keeps the message as the value it came from
json_proto(v) == IF v.t = "obj" THEN Parsed([proto |-> v.o]) ELSE Failed

option_json_proto(v) ==
    IF v.t = "null" THEN Parsed(None)
    ELSE IF json_proto(v).ok THEN Parsed(Some(json_proto(v).v)) ELSE Failed

vec_json_proto(v) ==
    IF v.t = "arr" /\ \A i \in DOMAIN v.a : json_proto(v.a[i]).ok
    THEN Parsed([i \in DOMAIN v.a |-> json_proto(v.a[i]).v])
    ELSE Failed

base64_proto(v) ==
    IF v.t = "null" THEN Parsed(None)
    ELSE IF v.t = "str" THEN Parsed(Some([proto |-> v.s]))
    ELSE Failed

\* `#[serde(default, deserialize_with = ...)]`: a missing field is
\* Default::default(), which is None, and the adapter sees only a field that
\* is there
default_base64_proto(v) == IF v.t = "missing" THEN Parsed(None) ELSE base64_proto(v)
default_option_json_proto(v) ==
    IF v.t = "missing" THEN Parsed(None) ELSE option_json_proto(v)

\* the structs; each takes the value it is decoded from
LoggingParams(v) ==
    IF v.t /= "obj" THEN Failed
    ELSE LET interaction_ids == de_Option_VecString(Field(v.o, "interaction_ids"))
             device_identifier == de_Option_String(Field(v.o, "device_identifier"))
             command_initiated_time == de_Option_i64(Field(v.o, "command_initiated_time"))
             page_instance_ids == de_Option_VecString(Field(v.o, "page_instance_ids"))
             command_id == de_Option_String(Field(v.o, "command_id"))
         IN  IF /\ interaction_ids.ok
                /\ device_identifier.ok
                /\ command_initiated_time.ok
                /\ page_instance_ids.ok
                /\ command_id.ok
             THEN Parsed([ interaction_ids |-> interaction_ids.v,
                           device_identifier |-> device_identifier.v,
                           command_initiated_time |-> command_initiated_time.v,
                           page_instance_ids |-> page_instance_ids.v,
                           command_id |-> command_id.v ])
             ELSE Failed

TransferOptions(v) ==
    IF v.t /= "obj" THEN Failed
    ELSE LET restore_paused == de_String(Field(v.o, "restore_paused"))
             restore_position == de_String(Field(v.o, "restore_position"))
             restore_track == de_String(Field(v.o, "restore_track"))
             retain_session == de_String(Field(v.o, "retain_session"))
         IN  IF /\ restore_paused.ok
                /\ restore_position.ok
                /\ restore_track.ok
                /\ retain_session.ok
             THEN Parsed([ restore_paused |-> restore_paused.v,
                           restore_position |-> restore_position.v,
                           restore_track |-> restore_track.v,
                           retain_session |-> retain_session.v ])
             ELSE Failed

SkipTo(v) ==
    IF v.t /= "obj" THEN Failed
    ELSE LET track_uid == de_String(Field(v.o, "track_uid"))
             track_uri == de_String(Field(v.o, "track_uri"))
             track_index == de_u32(Field(v.o, "track_index"))
         IN  IF track_uid.ok /\ track_uri.ok /\ track_index.ok
             THEN Parsed([ track_uid |-> track_uid.v,
                           track_uri |-> track_uri.v,
                           track_index |-> track_index.v ])
             ELSE Failed

PlayOptions(v) ==
    IF v.t /= "obj" THEN Failed
    ELSE LET skip_to == SkipTo(Field(v.o, "skip_to"))
             player_option_overrides ==
                 default_option_json_proto(Field(v.o, "player_option_overrides"))
             license == de_String(Field(v.o, "license"))
         IN  IF skip_to.ok /\ player_option_overrides.ok /\ license.ok
             THEN Parsed([ skip_to |-> skip_to.v,
                           player_option_overrides |-> player_option_overrides.v,
                           license |-> license.v ])
             ELSE Failed

TransferCommand(v) ==
    IF v.t /= "obj" THEN Failed
    ELSE LET data == default_base64_proto(Field(v.o, "data"))
             options == TransferOptions(Field(v.o, "options"))
             from_device_identifier == de_String(Field(v.o, "from_device_identifier"))
             logging_params == LoggingParams(Field(v.o, "logging_params"))
         IN  IF data.ok /\ options.ok /\ from_device_identifier.ok /\ logging_params.ok
             THEN Parsed([ data |-> data.v,
                           options |-> options.v,
                           from_device_identifier |-> from_device_identifier.v,
                           logging_params |-> logging_params.v ])
             ELSE Failed

PlayCommand(v) ==
    IF v.t /= "obj" THEN Failed
    ELSE LET context == json_proto(Field(v.o, "context"))
             play_origin == json_proto(Field(v.o, "play_origin"))
             options == PlayOptions(Field(v.o, "options"))
             logging_params == LoggingParams(Field(v.o, "logging_params"))
         IN  IF context.ok /\ play_origin.ok /\ options.ok /\ logging_params.ok
             THEN Parsed([ context |-> context.v,
                           play_origin |-> play_origin.v,
                           options |-> options.v,
                           logging_params |-> logging_params.v ])
             ELSE Failed

\* `deserialize_with = "boxed"`: the PlayCommand, in a Box
boxed(v) == PlayCommand(v)

PauseCommand(v) ==
    IF v.t /= "obj" THEN Failed
    ELSE LET logging_params == LoggingParams(Field(v.o, "logging_params"))
         IN  IF logging_params.ok
             THEN Parsed([logging_params |-> logging_params.v])
             ELSE Failed

SeekToCommand(v) ==
    IF v.t /= "obj" THEN Failed
    ELSE LET value == de_u32(Field(v.o, "value"))
             position == de_u32(Field(v.o, "position"))
             logging_params == LoggingParams(Field(v.o, "logging_params"))
         IN  IF value.ok /\ position.ok /\ logging_params.ok
             THEN Parsed([ value |-> value.v,
                           position |-> position.v,
                           logging_params |-> logging_params.v ])
             ELSE Failed

SkipNextCommand(v) ==
    IF v.t /= "obj" THEN Failed
    ELSE LET track == default_option_json_proto(Field(v.o, "track"))
             logging_params == LoggingParams(Field(v.o, "logging_params"))
         IN  IF track.ok /\ logging_params.ok
             THEN Parsed([track |-> track.v, logging_params |-> logging_params.v])
             ELSE Failed

SetShufflingCommand(v) ==
    IF v.t /= "obj" THEN Failed
    ELSE LET value == de_bool(Field(v.o, "value"))
             logging_params == LoggingParams(Field(v.o, "logging_params"))
         IN  IF value.ok /\ logging_params.ok
             THEN Parsed([value |-> value.v, logging_params |-> logging_params.v])
             ELSE Failed

AddToQueueCommand(v) ==
    IF v.t /= "obj" THEN Failed
    ELSE LET track == json_proto(Field(v.o, "track"))
             logging_params == LoggingParams(Field(v.o, "logging_params"))
         IN  IF track.ok /\ logging_params.ok
             THEN Parsed([track |-> track.v, logging_params |-> logging_params.v])
             ELSE Failed

SetQueueCommand(v) ==
    IF v.t /= "obj" THEN Failed
    ELSE LET next_tracks == vec_json_proto(Field(v.o, "next_tracks"))
             prev_tracks == vec_json_proto(Field(v.o, "prev_tracks"))
             queue_revision == de_String(Field(v.o, "queue_revision"))
             logging_params == LoggingParams(Field(v.o, "logging_params"))
         IN  IF next_tracks.ok /\ prev_tracks.ok /\ queue_revision.ok /\ logging_params.ok
             THEN Parsed([ next_tracks |-> next_tracks.v,
                           prev_tracks |-> prev_tracks.v,
                           queue_revision |-> queue_revision.v,
                           logging_params |-> logging_params.v ])
             ELSE Failed

GenericCommand(v) ==
    IF v.t /= "obj" THEN Failed
    ELSE LET logging_params == LoggingParams(Field(v.o, "logging_params"))
         IN  IF logging_params.ok
             THEN Parsed([logging_params |-> logging_params.v])
             ELSE Failed

\* `#[serde(tag = "endpoint", rename_all = "snake_case")]`: the variant a tag
\* names, if any.  The generated field visitor compares the tag with each name
\* by `==` on the strings.
VariantNamed_ignore_case(s) ==
    LET lower == CASE s = "PAUSE" -> "pause"
                   [] s = "Skip_Next" -> "skip_next"
                   [] s = "Seek_To" -> "seek_to"
                   [] OTHER -> s
    IN  CASE lower = "transfer" -> Some("Transfer")
          [] lower = "play" -> Some("Play")
          [] lower = "pause" -> Some("Pause")
          [] lower = "seek_to" -> Some("SeekTo")
          [] lower = "skip_next" -> Some("SkipNext")
          [] lower = "set_shuffling_context" -> Some("SetShufflingContext")
          [] lower = "add_to_queue" -> Some("AddToQueue")
          [] lower = "set_queue" -> Some("SetQueue")
          [] lower = "skip_prev" -> Some("SkipPrev")
          [] lower = "resume" -> Some("Resume")
          [] OTHER -> None

VariantNamed(s) ==
    CASE s = "transfer" -> Some("Transfer")
      [] s = "play" -> Some("Play")
      [] s = "pause" -> Some("Pause")
      [] s = "seek_to" -> Some("SeekTo")
      [] s = "skip_next" -> Some("SkipNext")
      [] s = "set_shuffling_context" -> Some("SetShufflingContext")
      [] s = "add_to_queue" -> Some("AddToQueue")
      [] s = "set_queue" -> Some("SetQueue")
      [] s = "skip_prev" -> Some("SkipPrev")
      [] s = "resume" -> Some("Resume")
      [] OTHER -> None

\* the payload type each tagged variant wraps
VariantPayload(variant, content) ==
    CASE variant = "Transfer" -> TransferCommand(content)
      [] variant = "Play" -> boxed(content)
      [] variant = "Pause" -> PauseCommand(content)
      [] variant = "SeekTo" -> SeekToCommand(content)
      [] variant = "SkipNext" -> SkipNextCommand(content)
      [] variant = "SetShufflingContext" -> SetShufflingCommand(content)
      [] variant = "AddToQueue" -> AddToQueueCommand(content)
      [] variant = "SetQueue" -> SetQueueCommand(content)
      [] variant = "SkipPrev" -> GenericCommand(content)
      [] variant = "Resume" -> GenericCommand(content)

\* the internally tagged variants: the value must be a map with an `endpoint`
\* that names a variant, and the rest of the map must decode as its payload
RequestCommandTagged(v) ==
    IF v.t /= "obj" \/ "endpoint" \notin DOMAIN v.o THEN Failed
    ELSE IF v.o["endpoint"].t /= "str" THEN Failed
    ELSE LET variant == VariantNamed(v.o["endpoint"].s)
             content == JObj(Without(v.o, "endpoint"))
         IN  IF variant = None THEN Failed
             ELSE IF VariantPayload(variant[1], content).ok
             THEN Parsed([ variant |-> variant[1],
                           payload |-> VariantPayload(variant[1], content).v ])
             ELSE Failed

\* the trailing `#[serde(untagged)] Unknown(Value)`
Unknown(v) == [variant |-> "Unknown", payload |-> v]

\* variant of `RequestCommand` in which a tag that names a variant commits the
\* decode to that variant
RequestCommand_known_tag_errors(v) ==
    IF v.t = "missing" THEN Failed
    ELSE IF /\ v.t = "obj"
            /\ "endpoint" \in DOMAIN v.o
            /\ v.o["endpoint"].t = "str"
            /\ VariantNamed(v.o["endpoint"].s) /= None
    THEN RequestCommandTagged(v)
    ELSE Parsed(Unknown(v))

\* Deserialize for RequestCommand: the value is buffered (there is none to
\* buffer when the field is missing), the tagged variants are tried, and
\* whatever error they give is dropped in favour of the untagged variant,
\* which takes the buffered value as it is
RequestCommand(v) ==
    IF v.t = "missing" THEN Failed
    ELSE IF RequestCommandTagged(v).ok THEN RequestCommandTagged(v)
    ELSE Parsed(Unknown(v))

\* variant of `Request` whose message_id is any JSON number
Request_wide_message_id(v) ==
    IF v.t /= "obj" THEN Failed
    ELSE LET message_id == de_i64(Field(v.o, "message_id"))
             sent_by_device_id == de_String(Field(v.o, "sent_by_device_id"))
             command == RequestCommand(Field(v.o, "command"))
         IN  IF message_id.ok /\ sent_by_device_id.ok /\ command.ok
             THEN Parsed([ message_id |-> message_id.v,
                           sent_by_device_id |-> sent_by_device_id.v,
                           command |-> command.v ])
             ELSE Failed

\* Deserialize for Request
Request(v) ==
    IF v.t /= "obj" THEN Failed
    ELSE LET message_id == de_u32(Field(v.o, "message_id"))
             sent_by_device_id == de_String(Field(v.o, "sent_by_device_id"))
             command == RequestCommand(Field(v.o, "command"))
         IN  IF message_id.ok /\ sent_by_device_id.ok /\ command.ok
             THEN Parsed([ message_id |-> message_id.v,
                           sent_by_device_id |-> sent_by_device_id.v,
                           command |-> command.v ])
             ELSE Failed

\* variant of `Display` that never looks into an unknown command
Display_placeholder(command) ==
    [ prefix |-> "endpoint: ",
      label |-> CASE command.variant = "Transfer" -> "transfer"
                  [] command.variant = "Play" -> "play"
                  [] command.variant = "Pause" -> "pause"
                  [] command.variant = "SeekTo" -> "seek_to"
                  [] command.variant = "SetShufflingContext" -> "set_shuffling_context"
                  [] command.variant = "AddToQueue" -> "add_to_queue"
                  [] command.variant = "SetQueue" -> "set_queue"
                  [] command.variant = "SkipNext" -> "skip_next"
                  [] command.variant = "SkipPrev" -> "skip_prev"
                  [] command.variant = "Resume" -> "resume"
                  [] command.variant = "Unknown" -> "???" ]

\* impl Display for RequestCommand: "endpoint: {}" with the variant's tag, or,
\* for Unknown(json), json's `endpoint` if json is an object that has one and
\* it is a string, else "???"
Display(command) ==
    [ prefix |-> "endpoint: ",
      label |-> CASE command.variant = "Transfer" -> "transfer"
                  [] command.variant = "Play" -> "play"
                  [] command.variant = "Pause" -> "pause"
                  [] command.variant = "SeekTo" -> "seek_to"
                  [] command.variant = "SetShufflingContext" -> "set_shuffling_context"
                  [] command.variant = "AddToQueue" -> "add_to_queue"
                  [] command.variant = "SetQueue" -> "set_queue"
                  [] command.variant = "SkipNext" -> "skip_next"
                  [] command.variant = "SkipPrev" -> "skip_prev"
                  [] command.variant = "Resume" -> "resume"
                  [] command.variant = "Unknown" ->
                        LET json == command.payload
                        IN  IF /\ json.t = "obj"
                               /\ "endpoint" \in DOMAIN json.o
                               /\ json.o["endpoint"].t = "str"
                            THEN json.o["endpoint"].s
                            ELSE "???" ]

\* ------------------------------------------------- envelopes on the wire
\* logging_params as senders fill it, and with an ill-typed member
LoggingEmpty == JObj(EmptyObj)
LoggingFull ==
    JObj([ interaction_ids |-> JArr(<<JStr("i1")>>),
           device_identifier |-> JStr("dev1"),
           command_initiated_time |-> JNum(7),
           command_id |-> JNull ])
LoggingIllTyped == JObj([command_initiated_time |-> JStr("late")])

TrackObject == JObj([uri |-> JStr("t1"), uid |-> JStr("u1")])

\* the endpoint-specific fields a command carries
Bodies ==
    { EmptyObj,
      [logging_params |-> LoggingEmpty],
      [logging_params |-> LoggingFull],
      [logging_params |-> LoggingIllTyped],
      [logging_params |-> JNull],
      [value |-> JNum(3), position |-> JNum(0), logging_params |-> LoggingEmpty],
      [value |-> JStr("3"), position |-> JNum(0), logging_params |-> LoggingEmpty],
      [value |-> JNum(-1), position |-> JNum(0), logging_params |-> LoggingEmpty],
      [position |-> JNum(0), logging_params |-> LoggingEmpty],
      [value |-> JBool(TRUE), logging_params |-> LoggingEmpty],
      [track |-> TrackObject, logging_params |-> LoggingEmpty],
      [track |-> JNull, logging_params |-> LoggingEmpty],
      [track |-> JStr("t1"), logging_params |-> LoggingEmpty],
      [ data |-> JStr("CgA="),
        options |-> JObj([ restore_paused |-> JStr("restore"),
                           restore_position |-> JStr("restore"),
                           restore_track |-> JStr("restore"),
                           retain_session |-> JStr("keep") ]),
        from_device_identifier |-> JStr("dev2"),
        logging_params |-> LoggingEmpty ],
      [ options |-> JObj([ restore_paused |-> JStr("restore"),
                           restore_position |-> JStr("restore"),
                           restore_track |-> JStr("restore"),
                           retain_session |-> JStr("keep") ]),
        from_device_identifier |-> JStr("dev2"),
        logging_params |-> LoggingEmpty ],
      [ context |-> JObj([uri |-> JStr("c1")]),
        play_origin |-> JObj([feature_identifier |-> JStr("home")]),
        options |-> JObj([ skip_to |-> JObj([ track_uid |-> JStr("u1"),
                                              track_uri |-> JStr("t1"),
                                              track_index |-> JNum(0) ]),
                           license |-> JStr("premium") ]),
        logging_params |-> LoggingEmpty ],
      [ next_tracks |-> JArr(<<TrackObject>>),
        prev_tracks |-> JArr(<<>>),
        queue_revision |-> JStr("r1"),
        logging_params |-> LoggingEmpty ] }

\* the tags of the variants as the wire spells them
Vocabulary ==
    { "transfer", "play", "pause", "seek_to", "skip_next", "set_shuffling_context",
      "add_to_queue", "set_queue", "skip_prev", "resume" }

\* endpoints: the vocabulary, a tag no variant has, and tags that are a
\* variant's but for the case of their letters
Endpoints == Vocabulary \cup {"future_feature", "PAUSE", "Skip_Next", "Seek_To"}

\* `command` values: a body under each endpoint, under an endpoint that is
\* not a string, without endpoint, and a value that is no object at all
Commands ==
    {JObj(With(body, "endpoint", JStr(e))) : body \in Bodies, e \in Endpoints}
        \cup {JObj(With(body, "endpoint", JBool(TRUE))) : body \in Bodies}
        \cup {JObj(body) : body \in Bodies}
        \cup {JStr("pause")}

Envelope(message_id, sent_by_device_id, command) ==
    JObj([ message_id |-> message_id,
           sent_by_device_id |-> sent_by_device_id,
           command |-> command ])

PauseOnWire == JObj([endpoint |-> JStr("pause"), logging_params |-> LoggingEmpty])

\* what the transport delivers: every command in a well-formed envelope, and
\* a well-formed command in envelopes that are not
Envelopes ==
    {Envelope(JNum(5), JStr("dev1"), command) : command \in Commands}
        \cup { Envelope(JStr("5"), JStr("dev1"), PauseOnWire),
               Envelope(JNum(-1), JStr("dev1"), PauseOnWire),
               Envelope(JNum(5), JNum(1), PauseOnWire),
               JObj([sent_by_device_id |-> JStr("dev1"), command |-> PauseOnWire]),
               JObj([message_id |-> JNum(5), command |-> PauseOnWire]),
               JObj([message_id |-> JNum(5), sent_by_device_id |-> JStr("dev1")]),
               JArr(<<>>) }

\* the transport hands over the next raw message
Deliver(m) ==
    /\ message = None \/ decoded.kind /= "NotDecoded"
    /\ message' = Some(m)
    /\ decoded' = NotDecoded
    /\ shown' = None
    /\ last_call' = Call("deliver", 0)
    /\ UNCHANGED <<active, active_since, has_been_playing_for, device, player, queue,
                   last_command, now, aborted, ret, pending, submissions,
                   publish_ret, base, advanced>>

\* the message is decoded into a Request and the command is formatted for the log
DecodeRequest ==
    /\ message /= None
    /\ decoded.kind = "NotDecoded"
    /\ LET request == Request(message[1])
       IN  /\ decoded' = IF request.ok
                         THEN [kind |-> "Ok", request |-> request.v]
                         ELSE [kind |-> "Err"]
           /\ shown' = IF request.ok THEN Some(Display(request.v.command)) ELSE None
    /\ last_call' = Call("deserialize", 0)
    /\ UNCHANGED <<message, active, active_since, has_been_playing_for, device,
                   player, queue, last_command, now, aborted, ret, pending,
                   submissions, publish_ret, base, advanced>>

NextDecode ==
    \/ \E m \in Envelopes : Deliver(m)
    \/ DecodeRequest

SpecDecode == Init /\ [][NextDecode]_vars

\* ===================================================================
\* Properties of the track advancement engine (checked under SpecAdvance)
\* ===================================================================

\* the play-next queue supplies the next track: it is the active source and non-empty
QueueSupplies(q) == q.is_playing_queue /\ q.tracks /= <<>>

\* this step is a call of next_playing_track
AdvanceCalled == last_call'.op = "next_playing_track"

\* the uids of the entries of a track list, and of an optional track
Uids(list) == {list[i].uid : i \in 1..Len(list)}

\* every track instance of a store (current, history, next, queue) is distinct
PairwiseDistinct(t) ==
    Cardinality(Uids(t.track) \cup Uids(t.prev_tracks) \cup Uids(t.next_tracks)
                \cup Uids(t.queue.tracks))
      = Len(t.track) + Len(t.prev_tracks) + Len(t.next_tracks) + Len(t.queue.tracks)

\* C1: the previous-track history never holds more than 10 entries, and a context
\* advancement that pushes onto a full history removes its oldest entry
\* (index 0) and appends the former current track as the last entry.
C1_HistoryBounded ==
    /\ [](Len(player.prev_tracks) <= HistoryMax)
    /\ [][(/\ AdvanceCalled
            /\ player.track /= None
            /\ ~QueueSupplies(queue)
            /\ Len(player.prev_tracks) = HistoryMax)
           => player'.prev_tracks = Append(Tail(player.prev_tracks), player.track[1])]_vars

\* a full history has been pushed onto: its oldest entry is gone, the former
\* current track is last, and the length is still HistoryMax
C1_Witness ==
    /\ last_call.op = "next_playing_track"
    /\ advanced = 1
    /\ base.track /= None
    /\ ~QueueSupplies(base.queue)
    /\ Len(base.prev_tracks) = HistoryMax
    /\ Len(player.prev_tracks) = HistoryMax
    /\ player.prev_tracks[1] = base.prev_tracks[2]
    /\ player.prev_tracks[HistoryMax] = base.track[1]

\* C2: context advancement is FIFO: when the queue supplies nothing and a current
\* track is set, the k-th successive successful call installs and returns the
\* k-th entry of the original next-track list and leaves the entries after it.
C2_ContextFifo ==
    (/\ base.track /= None
     /\ ~QueueSupplies(base.queue)
     /\ advanced >= 1
     /\ ret.kind = "Ok")
    => /\ advanced <= Len(base.next_tracks)
       /\ player.track = Some(base.next_tracks[advanced])
       /\ ret.track = player.track
       /\ player.next_tracks =
            SubSeq(base.next_tracks, advanced + 1, Len(base.next_tracks))

\* three successive context advancements over a next-track list [A, B, C]
C2_Witness ==
    /\ base.track /= None
    /\ ~QueueSupplies(base.queue)
    /\ Len(base.next_tracks) = 3
    /\ advanced = 3
    /\ ret.kind = "Ok"
    /\ player.track = Some(base.next_tracks[3])
    /\ player.next_tracks = <<>>

\* C3: a context advancement with a current track and an empty next-track list
\* returns the NoNextTrack error and does not abort the process.
C3_ExhaustedReturnsNoNextTrack ==
    [][(/\ AdvanceCalled
        /\ player.track /= None
        /\ ~QueueSupplies(queue)
        /\ player.next_tracks = <<>>)
       => (ret' = Err("NoNextTrack") /\ ~aborted')]_vars

\* C4: queue-sourced advancement is LIFO with fallback: while the queue is the
\* active source, the k-th successive successful call installs the k-th entry
\* from the tail of the original queue, tagged "queue"; once the queue is used
\* up, the calls take the head of the next-track list in order.
C4_QueueLifoThenContext ==
    (/\ base.queue.is_playing_queue
     /\ advanced >= 1
     /\ ret.kind = "Ok")
    => LET m == Len(base.queue.tracks)
       IN /\ ret.track = player.track
          /\ IF advanced <= m
             THEN /\ player.track =
                       Some([ uri |-> base.queue.tracks[m - advanced + 1].uri,
                              uid |-> base.queue.tracks[m - advanced + 1].uid,
                              provider |-> "queue" ])
                  /\ queue.tracks = SubSeq(base.queue.tracks, 1, m - advanced)
                  /\ player.next_tracks = base.next_tracks
             ELSE /\ advanced - m <= Len(base.next_tracks)
                  /\ player.track = Some(base.next_tracks[advanced - m])
                  /\ queue.tracks = <<>>
                  /\ player.next_tracks =
                       SubSeq(base.next_tracks, advanced - m + 1, Len(base.next_tracks))

\* a queue [X, Y] has yielded Y, then X, and the third call has taken the head
\* of the next-track list
C4_Witness ==
    /\ base.queue.is_playing_queue
    /\ Len(base.queue.tracks) = 2
    /\ base.queue.tracks[1].uid /= base.queue.tracks[2].uid
    /\ advanced = 3
    /\ ret.kind = "Ok"
    /\ player.track = Some(Head(base.next_tracks))
    /\ Len(player.prev_tracks) = Len(base.prev_tracks) + 1
    /\ player.prev_tracks[Len(player.prev_tracks)].uid = base.queue.tracks[1].uid
    /\ player.prev_tracks[Len(player.prev_tracks)].provider = "queue"

\* C5: whenever no current track is set, next_playing_track fails with
\* NoCurrentTrack, whatever the queue, the next-track list and the queue-active
\* flag hold.
C5_NoCurrentTrackAlways ==
    [][(AdvanceCalled /\ player.track = None) => ret' = Err("NoCurrentTrack")]_vars

\* C5 (amended): with no current track set, next_playing_track fails with
\* NoCurrentTrack and changes nothing unless the play-next queue is the active
\* source and non-empty; then it installs and returns the queue's tail.
C5_NoCurrentTrackUnlessQueued ==
    [][(AdvanceCalled /\ player.track = None)
       => IF QueueSupplies(queue)
          THEN /\ ret'.kind = "Ok"
               /\ ret'.track = player'.track
               /\ player'.track[1].uid = queue.tracks[Len(queue.tracks)].uid
          ELSE /\ ret' = Err("NoCurrentTrack")
               /\ player' = player
               /\ queue' = queue
               /\ ~aborted']_vars

\* the call failed with NoCurrentTrack although the queue is the active source
\* (but empty) and the next-track list offers a track
C5_Witness ==
    /\ last_call.op = "next_playing_track"
    /\ ret = Err("NoCurrentTrack")
    /\ player.track = None
    /\ queue.is_playing_queue
    /\ player.next_tracks /= <<>>

\* C8: from a store whose track instances are pairwise distinct, the current
\* track, when present, is neither in the history nor in the next-track list,
\* after any number of advancements of either kind.
C8_CurrentNotInLists ==
    (PairwiseDistinct(base) /\ player.track /= None)
    => /\ player.track[1].uid \notin Uids(player.prev_tracks)
       /\ player.track[1].uid \notin Uids(player.next_tracks)

\* two queue-sourced advancements and a context one from a distinct store
C8_Witness ==
    /\ PairwiseDistinct(base)
    /\ base.track /= None
    /\ base.queue.is_playing_queue
    /\ Len(base.queue.tracks) = 2
    /\ Len(base.prev_tracks) >= 1
    /\ advanced = 3
    /\ player.track /= None
    /\ player.next_tracks /= <<>>

\* ===================================================================
\* Properties of the store's mutators (checked under Spec)
\* ===================================================================

\* C6: in every state reachable from `new` by set_active, reset and the other
\* mutators, active_since is present exactly when active is true.
C6_ActiveSinceIffActive == (active_since /= None) <=> active

\* the store has been activated at a later time than construction
C6_Witness ==
    /\ last_call.op = "set_active"
    /\ last_call.arg = TRUE
    /\ active
    /\ now >= 1
    /\ active_since = Some(now)

\* C7: set_active(true) on an active store changes neither active nor
\* active_since, and set_active(false) leaves active false and active_since
\* absent from any state.
C7_SetActiveIdempotent ==
    [][(last_call'.op = "set_active")
       => IF last_call'.arg
          THEN active => (active' /\ active_since' = active_since)
          ELSE ~active' /\ active_since' = None]_vars

\* set_active(true) has been called on a store activated at an earlier time:
\* the first timestamp is kept
C7_Witness ==
    /\ last_call.op = "set_active"
    /\ last_call.arg = TRUE
    /\ active
    /\ active_since /= None
    /\ active_since[1] < now

\* the transport flags the status table gives for a status
StatusTable(status) ==
    CASE status = "Stopped" -> [playing |-> FALSE, paused |-> TRUE, buffering |-> FALSE]
      [] status = "Paused" -> [playing |-> FALSE, paused |-> TRUE, buffering |-> FALSE]
      [] status = "LoadingPause" -> [playing |-> FALSE, paused |-> TRUE, buffering |-> TRUE]
      [] status = "LoadingPlay" -> [playing |-> TRUE, paused |-> FALSE, buffering |-> TRUE]
      [] status = "Playing" -> [playing |-> TRUE, paused |-> FALSE, buffering |-> FALSE]

\* C9: after set_status the three transport flags are those of the status
\* table, whatever they were before.
C9_StatusTable ==
    (last_call.op = "set_status")
    => /\ player.is_playing = StatusTable(last_call.arg).playing
       /\ player.is_paused = StatusTable(last_call.arg).paused
       /\ player.is_buffering = StatusTable(last_call.arg).buffering

\* Stopped has been applied to a store: paused only
C9_Witness ==
    /\ last_call.op = "set_status"
    /\ last_call.arg = "Stopped"
    /\ ~player.is_playing
    /\ player.is_paused
    /\ ~player.is_buffering

\* ===================================================================
\* Properties of the publisher (checked under SpecPublish)
\* ===================================================================

\* C10: the request update_state submits carries the device info, the player
\* state and is_active of the store as they are when it is invoked; nothing
\* done to the store while the request is in flight changes the request, and
\* the next call submits the store as it then is.
C10_SnapshotAtInvocation ==
    [][/\ (last_call'.op = "update_state" /\ pending' /= None)
          => /\ pending'[1].is_active = active
             /\ pending'[1].device.device_info = device
             /\ pending'[1].device.player_state = player
       /\ (pending /= None /\ last_call'.op \notin {"update_state",
                                                     "put_connect_state_response"})
          => pending' = pending]_vars

\* a request is in flight that shows the store as it was when update_state was
\* invoked (active and playing), while the store has since been paused and
\* deactivated
C10_Witness ==
    /\ pending /= None
    /\ pending[1].is_active
    /\ pending[1].device.player_state.is_playing
    /\ pending[1].started_playing_at >= 1
    /\ ~active
    /\ player.is_paused

\* C11: when put_connect_state_request fails, update_state returns that very
\* failure after one submission: the request is not submitted again, the call
\* does not report success, and no step of update_state changes the store.
C11_FailureSurfacedOnce ==
    [][/\ (last_call'.op = "put_connect_state_response" /\ last_call'.arg.kind = "Err")
          => /\ publish_ret' = last_call'.arg
             /\ pending' = None
             /\ submissions' = 1
       /\ (last_call'.op \in {"update_state", "put_connect_state_response"})
          => /\ submissions' <= 1
             /\ <<active, active_since, has_been_playing_for, device, player,
                  queue, last_command>>' =
                <<active, active_since, has_been_playing_for, device, player,
                  queue, last_command>>]_vars

\* a submission has failed and update_state has returned the failure
C11_Witness ==
    /\ last_call.op = "put_connect_state_response"
    /\ last_call.arg = Err("deadline_exceeded")
    /\ publish_ret = Err("deadline_exceeded")
    /\ submissions = 1
    /\ pending = None
    /\ active

\* ===================================================================
\* Further properties of the advancement engine
\* ===================================================================

\* C12: prev_track on a non-empty history removes its last entry, installs it
\* as the current track and puts the former current track at the head of the
\* next-track list; on an empty history it fails with NoPreviousTrack.
\* (checked under SpecPrevious)
C12_PreviousRestoresHistory ==
    [][(last_call'.op = "prev_track")
       => IF player.prev_tracks /= <<>>
          THEN /\ player'.track = Some(player.prev_tracks[Len(player.prev_tracks)])
               /\ player'.prev_tracks =
                    SubSeq(player.prev_tracks, 1, Len(player.prev_tracks) - 1)
               /\ player'.next_tracks = player.track \o player.next_tracks
          ELSE ret' = Err("NoPreviousTrack")]_vars

\* C13: a queue-sourced advancement leaves the history and the next-track list
\* as they are: the queue loses its tail, the current track becomes that entry
\* tagged "queue", and nothing else of the store changes.
\* (checked under SpecAdvance)
C13_QueueAdvanceFrame ==
    [][(AdvanceCalled /\ QueueSupplies(queue))
       => LET tail == queue.tracks[Len(queue.tracks)]
          IN /\ player' = [player EXCEPT !.track = Some([ uri |-> tail.uri,
                                                          uid |-> tail.uid,
                                                          provider |-> "queue" ])]
             /\ queue' = [queue EXCEPT
                            !.tracks = SubSeq(queue.tracks, 1, Len(queue.tracks) - 1)]
             /\ <<active, active_since, has_been_playing_for, device, last_command>>'
                  = <<active, active_since, has_been_playing_for, device, last_command>>
             /\ ~aborted']_vars

\* a queue-sourced advancement has replaced a current track, which is not in
\* the history afterwards
C13_Witness ==
    /\ last_call.op = "next_playing_track"
    /\ advanced = 1
    /\ PairwiseDistinct(base)
    /\ base.track /= None
    /\ QueueSupplies(base.queue)
    /\ base.prev_tracks /= <<>>
    /\ base.next_tracks /= <<>>
    /\ player.track /= None
    /\ player.track[1].provider = "queue"
    /\ player.prev_tracks = base.prev_tracks
    /\ player.next_tracks = base.next_tracks
    /\ base.track[1].uid \notin Uids(player.prev_tracks)

\* C19: a next_playing_track call that does not return a newly installed track
\* leaves the current track, the history, the next-track list and the queue as
\* they were.  (checked under SpecAdvance)
C19_FailureLeavesTracks ==
    [][(AdvanceCalled /\ ret'.kind /= "Ok")
       => Tracks(player', queue') = Tracks(player, queue)]_vars

\* ===================================================================
\* Further properties of the store's mutators (checked under Spec)
\* ===================================================================

\* C14: after set_playing_track_index(n) the context index of the player is n,
\* in every state (the one `new` produces included), and the current track, the
\* history, the next-track list and the queue are as before.
C14_IndexOverwritten ==
    [][(last_call'.op = "set_playing_track_index")
       => /\ player'.index /= None
          /\ player'.index[1].track = last_call'.arg
          /\ Tracks(player', queue') = Tracks(player, queue)]_vars

\* the three transport flags of a player
Flags(p) == <<p.is_playing, p.is_paused, p.is_buffering>>

\* C20: playing and paused are never both true; buffering is true only after a
\* LoadingPause or LoadingPlay status with no later status or reset (set_status
\* sets it for exactly these two, reset clears it, `new` starts with it clear);
\* and no operation other than set_status and reset changes any of the flags.
C20_TransportFlags ==
    /\ [](~(player.is_playing /\ player.is_paused))
    /\ [](last_call.op = "new" => ~player.is_buffering)
    /\ [][/\ (last_call'.op = "set_status")
             => (player'.is_buffering
                   <=> last_call'.arg \in {"LoadingPause", "LoadingPlay"})
          /\ (last_call'.op = "reset") => ~player'.is_buffering
          /\ (last_call'.op \notin {"set_status", "reset"})
             => Flags(player') = Flags(player)]_vars

\* a track has been installed while the player was loading for play: the flags
\* LoadingPlay gave are still there
C20_Witness ==
    /\ last_call.op = "next_playing_track"
    /\ ret.kind = "Ok"
    /\ active
    /\ player.is_playing
    /\ ~player.is_paused
    /\ player.is_buffering

\* ===================================================================
\* Properties of the command decoder (checked under SpecDecode)
\* ===================================================================

\* the delivered message has been decoded
Decoded == message /= None /\ decoded.kind /= "NotDecoded"

\* the envelope's own fields are there and of their types
EnvelopeWellFormed(m) ==
    /\ m.t = "obj"
    /\ {"message_id", "sent_by_device_id", "command"} \subseteq DOMAIN m.o
    /\ m.o["message_id"].t = "num"
    /\ m.o["message_id"].n >= 0
    /\ m.o["sent_by_device_id"].t = "str"

\* the command carries an endpoint and it is a string
HasEndpoint(c) ==
    /\ c.t = "obj"
    /\ "endpoint" \in DOMAIN c.o
    /\ c.o["endpoint"].t = "str"

\* the tag each typed variant is written with
TagOf ==
    [ Transfer |-> "transfer", Play |-> "play", Pause |-> "pause",
      SeekTo |-> "seek_to", SkipNext |-> "skip_next",
      SetShufflingContext |-> "set_shuffling_context",
      AddToQueue |-> "add_to_queue", SetQueue |-> "set_queue",
      SkipPrev |-> "skip_prev", Resume |-> "resume" ]

\* the fields `o` do not make up the payload of endpoint `e`: a required one
\* is missing or one is of the wrong type
FieldsFail(e, o) ==
    \/ "logging_params" \notin DOMAIN o
    \/ o["logging_params"] \notin {LoggingEmpty, LoggingFull}
    \/ /\ e = "seek_to"
       /\ ~ /\ {"value", "position"} \subseteq DOMAIN o
            /\ o["value"].t = "num" /\ o["value"].n >= 0
            /\ o["position"].t = "num" /\ o["position"].n >= 0
    \/ /\ e = "set_shuffling_context"
       /\ ~("value" \in DOMAIN o /\ o["value"].t = "bool")
    \/ /\ e = "skip_next"
       /\ "track" \in DOMAIN o
       /\ o["track"].t \notin {"obj", "null"}
    \/ /\ e = "add_to_queue"
       /\ ~("track" \in DOMAIN o /\ o["track"].t = "obj")
    \/ /\ e = "transfer"
       /\ ~({"options", "from_device_identifier"} \subseteq DOMAIN o)
    \/ /\ e = "play"
       /\ ~({"context", "play_origin", "options"} \subseteq DOMAIN o)
    \/ /\ e = "set_queue"
       /\ ~({"next_tracks", "prev_tracks", "queue_revision"} \subseteq DOMAIN o)

\* C15: a command whose endpoint is outside the vocabulary, or that has no
\* endpoint, decodes to Unknown holding the raw command unchanged, with
\* message_id and sent_by_device_id decoded all the same; the label of an
\* Unknown is the endpoint string as it was sent, or the placeholder "???"
\* when there is none, and the label of a typed variant is its tag.
C15_UnknownKeepsPayload ==
    (Decoded /\ EnvelopeWellFormed(message[1])) =>
        LET m == message[1].o
            c == message[1].o["command"]
        IN  /\ (~HasEndpoint(c) \/ c.o["endpoint"].s \notin Vocabulary) =>
                  /\ decoded.kind = "Ok"
                  /\ decoded.request.command.variant = "Unknown"
                  /\ decoded.request.command.payload = c
                  /\ decoded.request.message_id = m["message_id"].n
                  /\ decoded.request.sent_by_device_id = m["sent_by_device_id"].s
                  /\ shown /= None
                  /\ shown[1].label = IF HasEndpoint(c) THEN c.o["endpoint"].s ELSE "???"
            /\ (decoded.kind = "Ok" /\ decoded.request.command.variant /= "Unknown") =>
                  /\ shown /= None
                  /\ shown[1].label = TagOf[decoded.request.command.variant]

\* "future_feature" has been decoded to Unknown and labelled by its endpoint
C15_Witness ==
    /\ Decoded
    /\ decoded.kind = "Ok"
    /\ decoded.request.command.variant = "Unknown"
    /\ decoded.request.message_id = 5
    /\ shown /= None
    /\ shown[1].label = "future_feature"

\* C16: a command whose endpoint is in the vocabulary but whose fields fail
\* typed parsing (seek_to without value, pause without logging_params) decodes
\* to Unknown holding the raw command verbatim; the envelope decodes.
C16_FailedFieldsBecomeUnknown ==
    (Decoded /\ EnvelopeWellFormed(message[1])) =>
        LET c == message[1].o["command"]
        IN  ( /\ HasEndpoint(c)
              /\ c.o["endpoint"].s \in Vocabulary
              /\ FieldsFail(c.o["endpoint"].s, c.o) ) =>
                  /\ decoded.kind = "Ok"
                  /\ decoded.request.command.variant = "Unknown"
                  /\ decoded.request.command.payload = c

\* a seek_to without `value` has been decoded to Unknown
C16_Witness ==
    /\ Decoded
    /\ EnvelopeWellFormed(message[1])
    /\ HasEndpoint(message[1].o["command"])
    /\ message[1].o["command"].o["endpoint"].s = "seek_to"
    /\ "value" \notin DOMAIN message[1].o["command"].o
    /\ decoded.kind = "Ok"
    /\ decoded.request.command.variant = "Unknown"
    /\ decoded.request.command.payload = message[1].o["command"]

\* C17 as stated: a known endpoint whose required fields are missing or
\* ill-typed yields a decode error rather than a decoded command, and an
\* endpoint outside the vocabulary is never an error.
C17_KnownEndpointFailureIsError ==
    (Decoded /\ EnvelopeWellFormed(message[1])) =>
        LET c == message[1].o["command"]
        IN  IF HasEndpoint(c) /\ c.o["endpoint"].s \in Vocabulary
            THEN FieldsFail(c.o["endpoint"].s, c.o) => decoded.kind = "Err"
            ELSE decoded.kind /= "Err"

\* C17 (amended): a known endpoint whose required fields are missing or
\* ill-typed does not yield a decode error; the decode fails exactly when one
\* of the envelope's own fields (message_id, sent_by_device_id, command) is
\* missing or ill-typed, whatever the endpoint.
C17_ErrorOnlyFromEnvelope ==
    Decoded => (decoded.kind = "Err" <=> ~EnvelopeWellFormed(message[1]))

\* a pause without logging_params has been decoded, and not to an error
C17_Witness ==
    /\ Decoded
    /\ EnvelopeWellFormed(message[1])
    /\ HasEndpoint(message[1].o["command"])
    /\ message[1].o["command"].o["endpoint"].s = "pause"
    /\ "logging_params" \notin DOMAIN message[1].o["command"].o
    /\ decoded.kind = "Ok"

\* str::to_lowercase on the endpoints of the wire
Lowercase(s) ==
    CASE s = "PAUSE" -> "pause"
      [] s = "Skip_Next" -> "skip_next"
      [] s = "Seek_To" -> "seek_to"
      [] OTHER -> s

\* the command's fields are those of the endpoint its tag spells, letter
\* case aside
SpellsEndpoint(c) ==
    /\ HasEndpoint(c)
    /\ Lowercase(c.o["endpoint"].s) \in Vocabulary
    /\ ~FieldsFail(Lowercase(c.o["endpoint"].s), c.o)

\* C18 as stated: an endpoint that differs from a tag only in letter case
\* decodes to the typed variant of that tag, not to Unknown.
C18_EndpointIgnoresCase ==
    (Decoded /\ EnvelopeWellFormed(message[1])) =>
        LET c == message[1].o["command"]
        IN  SpellsEndpoint(c) =>
                /\ decoded.kind = "Ok"
                /\ decoded.request.command.variant /= "Unknown"
                /\ TagOf[decoded.request.command.variant] = Lowercase(c.o["endpoint"].s)

\* C18 (amended): the endpoint is matched exactly: the tag as the vocabulary
\* spells it decodes to its typed variant, and an endpoint that differs from
\* it in letter case decodes to Unknown holding the raw command, labelled by
\* the endpoint as it was sent.
C18_EndpointExactCase ==
    (Decoded /\ EnvelopeWellFormed(message[1])) =>
        LET c == message[1].o["command"]
        IN  SpellsEndpoint(c) =>
                /\ decoded.kind = "Ok"
                /\ shown /= None
                /\ shown[1].label = c.o["endpoint"].s
                /\ IF c.o["endpoint"].s \in Vocabulary
                   THEN /\ decoded.request.command.variant /= "Unknown"
                        /\ TagOf[decoded.request.command.variant] = c.o["endpoint"].s
                   ELSE /\ decoded.request.command.variant = "Unknown"
                        /\ decoded.request.command.payload = c

\* a well-formed pause sent as "PAUSE" has been decoded to Unknown
C18_Witness ==
    /\ Decoded
    /\ EnvelopeWellFormed(message[1])
    /\ SpellsEndpoint(message[1].o["command"])
    /\ message[1].o["command"].o["endpoint"].s = "PAUSE"
    /\ decoded.kind = "Ok"
    /\ decoded.request.command.variant = "Unknown"
    /\ shown[1].label = "PAUSE"

====
